---- MODULE Spec2Model ----
(***************************************************************************)
(* Model of CrosswordCreator (src/generate.py): the CSP solver that fills  *)
(* a crossword with enforce_node_consistency, revise, ac3 and backtrack.   *)
(*                                                                         *)
(* Words are tuples of letters (letters are 1..3).  A domain is modelled   *)
(* as the set of its words; the iteration order of a Python set (and of    *)
(* the lists revise() builds from one) is a nondeterministic choice made   *)
(* where the code sorts it.  The iteration orders of crossword.variables   *)
(* and of crossword.neighbors(x) are chosen once, in Init: the same set is *)
(* iterated in the same order by every call of one run.  Indices of an     *)
(* overlap are 0-based as in the code, so a word is read at [index + 1].   *)
(***************************************************************************)
EXTENDS Integers, Sequences, FiniteSets, TLC

VARIABLES variables, words, varOrder, nbrOrder, domains, pc, queue, ac3ret,
          stack, arg, result, rev, snap, runs, btInvoked

vars == <<variables, words, varOrder, nbrOrder, domains, pc, queue, ac3ret,
          stack, arg, result, rev, snap, runs, btInvoked>>

\* the puzzle, the vocabulary and the iteration orders of the puzzle's sets:
\* fixed for the whole run
model == <<variables, words, varOrder, nbrOrder>>

(* ------------------------------ bounds --------------------------------- *)

\* largest vocabulary handed to the solver
MaxVocab == 3

\* how many times the re-run specification calls the global ac3()
MaxRuns == 2

(* ------------------------------ inputs --------------------------------- *)

ACROSS == "across"
DOWN == "down"

Var(i, j, direction, length) ==
    [i |-> i, j |-> j, direction |-> direction, length |-> length]

\* two crossing length-3 slots, overlapping at A-index 1 / B-index 0
PuzzleCross == {Var(0, 0, ACROSS, 3), Var(0, 1, DOWN, 3)}
\* two slots of length 2 that share no cell
PuzzleDisjoint == {Var(0, 0, ACROSS, 2), Var(2, 0, ACROSS, 2)}
\* a chain x - y - z of length-2 slots
PuzzleStair == {Var(0, 0, ACROSS, 2), Var(0, 1, DOWN, 2), Var(1, 1, ACROSS, 2)}
\* slots of two different lengths crossing in their first cell
PuzzleMixed == {Var(0, 0, ACROSS, 3), Var(0, 0, DOWN, 2)}

\* an across slot of length 2 with a down slot of length 2 under each letter
PuzzleBridge == {Var(0, 0, DOWN, 2), Var(0, 0, ACROSS, 2), Var(0, 1, DOWN, 2)}

Puzzles == {PuzzleCross, PuzzleDisjoint, PuzzleStair, PuzzleMixed, PuzzleBridge}

Pool == { <<1, 2>>, <<2, 3>>, <<1, 1>>,
          <<1, 2, 1>>, <<2, 2, 1>>, <<1, 1, 2>> }

Vocabularies == {S \in SUBSET Pool : Cardinality(S) <= MaxVocab}

(* --------------------------- puzzle model ------------------------------ *)

\* the cell of the k-th letter (k from 0) of a slot
Cell(variable, k) ==
    << variable.i + (IF variable.direction = DOWN THEN k ELSE 0),
       variable.j + (IF variable.direction = ACROSS THEN k ELSE 0) >>

NoOverlap == << >>

\* crossword.overlaps[x, y]: the indices (ix, iy) of the cell x and y share
Overlap(x, y) ==
    LET common == {p \in (0 .. x.length - 1) \X (0 .. y.length - 1) :
                      Cell(x, p[1]) = Cell(y, p[2])}
    IN  IF x = y \/ common = {} THEN NoOverlap ELSE CHOOSE p \in common : TRUE

\* crossword.neighbors(var)
Neighbors(var) ==
    {v \in variables : v # var /\ Overlap(v, var) # NoOverlap}

(* ------------------------------ helpers -------------------------------- *)

\* every order in which the elements of S can be iterated
Orderings(S) ==
    {s \in [1 .. Cardinality(S) -> S] :
        \A a, b \in 1 .. Cardinality(S) : a # b => s[a] # s[b]}

Min(S) == CHOOSE m \in S : \A n \in S : m <= n

RECURSIVE SumOver(_, _)
SumOver(f, S) ==
    IF S = {} THEN 0
    ELSE LET e == CHOOSE e \in S : TRUE IN f[e] + SumOver(f, S \ {e})

EmptyAssignment == [v \in {} |-> << >>]

NoneResult == [none |-> TRUE, value |-> EmptyAssignment]

Some(assignment) == [none |-> FALSE, value |-> assignment]

NoRev == [valid |-> FALSE]

(* ---------------------- enforce_node_consistency ----------------------- *)

\* variant: only the words that are too long are removed
EnforceNodeConsistencyTooLongOnly(doms) ==
    [var \in variables |-> {word \in doms[var] : ~(var.length < Len(word))}]

EnforceNodeConsistencyDomains(doms) ==
    [var \in variables |-> {word \in doms[var] : ~(var.length # Len(word))}]

(* ------------------------------- revise -------------------------------- *)

\* variant: the two indices of the overlap are taken the wrong way round
ReviseSwappedIndices(doms, x, y) ==
    LET overlap == Overlap(x, y)
        domain == {wordX \in doms[x] :
                      {wordY \in doms[y] :
                          wordX[overlap[2] + 1] = wordY[overlap[1] + 1]} # {}}
        after == [doms EXCEPT ![x] = domain]
    IN  [domains |-> after,
         revised |-> Cardinality(domain) # Cardinality(after[x])]

\* variant: the matching words of y are collected instead of the word of x
ReviseCollectingWordY(doms, x, y) ==
    LET overlap == Overlap(x, y)
        domain == {wordY \in doms[y] :
                      {wordX \in doms[x] :
                          wordX[overlap[1] + 1] = wordY[overlap[2] + 1]} # {}}
        after == [doms EXCEPT ![x] = domain]
    IN  [domains |-> after,
         revised |-> Cardinality(domain) # Cardinality(after[x])]

\* the store after revise(x, y) and the value revise returns
Revise(doms, x, y) ==
    LET overlap == Overlap(x, y)
        domain == {wordX \in doms[x] :
                      {wordY \in doms[y] :
                          wordX[overlap[1] + 1] = wordY[overlap[2] + 1]} # {}}
        after == [doms EXCEPT ![x] = domain]
    IN  [domains |-> after,
         revised |-> Cardinality(domain) # Cardinality(after[x])]

(* -------------------------------- ac3 ---------------------------------- *)

\* the arcs (x, y) for y in neighbors(x), in iteration order
ArcsFrom(x) == [k \in 1 .. Len(nbrOrder[x]) |-> <<x, nbrOrder[x][k]>>]

\* the queue ac3() builds when arcs is None: for x in variables, for y in
\* neighbors(x)
RECURSIVE ArcsOfAll(_)
ArcsOfAll(xs) ==
    IF xs = << >> THEN << >> ELSE ArcsFrom(Head(xs)) \o ArcsOfAll(Tail(xs))

GlobalQueue == ArcsOfAll(varOrder)

\* variant: the arcs towards the selected variable are handed over as well
RestrictedQueueBothWays(selectedVar) ==
    ArcsFrom(selectedVar)
        \o [k \in 1 .. Len(nbrOrder[selectedVar]) |->
                <<nbrOrder[selectedVar][k], selectedVar>>]

\* the arcs backtrack() hands to ac3(): (selectedVar, neighbor) per neighbor
RestrictedQueue(selectedVar) == ArcsFrom(selectedVar)

\* variant: the arcs (x, z) are queued whether or not revise changed anything
Ac3StepAlwaysEnqueue(doms, q) ==
    LET x == q[1][1]
        y == q[1][2]
        r == Revise(doms, x, y)
        more == SelectSeq(nbrOrder[x], LAMBDA z : z.i # y.i /\ z.j # y.j)
    IN  [domains |-> r.domains,
         queue |-> Tail(q) \o [k \in 1 .. Len(more) |-> <<x, more[k]>>],
         returned |-> FALSE, value |-> TRUE, revised |-> r.revised]

\* one iteration of the while loop
Ac3Step(doms, q) ==
    LET x == q[1][1]
        y == q[1][2]
        r == Revise(doms, x, y)
        more == SelectSeq(nbrOrder[x], LAMBDA z : z.i # y.i /\ z.j # y.j)
    IN  IF r.revised
        THEN IF Cardinality(r.domains[x]) = 0
             THEN [domains |-> r.domains, queue |-> Tail(q),
                   returned |-> TRUE, value |-> FALSE, revised |-> TRUE]
             ELSE [domains |-> r.domains,
                   queue |-> Tail(q) \o [k \in 1 .. Len(more) |-> <<x, more[k]>>],
                   returned |-> FALSE, value |-> TRUE, revised |-> TRUE]
        ELSE [domains |-> r.domains, queue |-> Tail(q),
              returned |-> FALSE, value |-> TRUE, revised |-> FALSE]

(* ------------------------- assignment_complete ------------------------- *)

AssignmentComplete(assignment) ==
    \A var \in variables : var \in DOMAIN assignment

(* ----------------------------- consistent ------------------------------ *)

Values(assignment) == {assignment[v] : v \in DOMAIN assignment}

\* variant: the test that no word is used twice is missing
ConsistentAllowingRepeats(assignment) ==
    \A var \in DOMAIN assignment :
        /\ ~(var.length # Len(assignment[var]))
        /\ \A neighbor \in Neighbors(var) :
              LET overlap == Overlap(var, neighbor)
              IN  ~(assignment[var][overlap[1] + 1]
                       # assignment[neighbor][overlap[2] + 1])

\* variant: the letters at the overlaps are not compared
ConsistentIgnoringOverlaps(assignment) ==
    \A var \in DOMAIN assignment :
        ~(\/ Cardinality(DOMAIN assignment) # Cardinality(Values(assignment))
          \/ var.length # Len(assignment[var]))

\* consistent() is only ever called on a complete assignment, so every
\* neighbor it looks up is a key of the assignment
Consistent(assignment) ==
    \A var \in DOMAIN assignment :
        /\ ~(\/ Cardinality(DOMAIN assignment) # Cardinality(Values(assignment))
             \/ var.length # Len(assignment[var]))
        /\ \A neighbor \in Neighbors(var) :
              LET overlap == Overlap(var, neighbor)
              IN  ~(assignment[var][overlap[1] + 1]
                       # assignment[neighbor][overlap[2] + 1])

(* ------------------------- order_domain_values ------------------------- *)

\* the number n that order_domain_values computes for varWord
CountN(var, varWord, assignment) ==
    LET open == {neighbor \in Neighbors(var) : neighbor \notin DOMAIN assignment}
        perNeighbor ==
            [neighbor \in open |->
                LET overlap == Overlap(var, neighbor)
                IN  Cardinality({neighborWord \in domains[neighbor] :
                        varWord[overlap[1] + 1] = neighborWord[overlap[2] + 1]})]
    IN  SumOver(perNeighbor, open)

\* the lists order_domain_values can return: sorted ascending by n, ties in
\* the iteration order of the domain
OrderDomainValues(var, assignment) ==
    {s \in Orderings(domains[var]) :
        \A a, b \in 1 .. Len(s) :
            a < b => CountN(var, s[a], assignment) <= CountN(var, s[b], assignment)}

(* ---------------------- select_unassigned_variable --------------------- *)

Max(S) == CHOOSE m \in S : \A n \in S : m >= n

\* variant: the variable with the most remaining values is chosen
SelectLargestDomain(assignment) ==
    LET untreatedVar == {var \in variables : var \notin DOMAIN assignment}
        maxValue == Max({Cardinality(domains[var]) : var \in untreatedVar})
        byMaxValue == {var \in untreatedVar : Cardinality(domains[var]) = maxValue}
        minDegree == Min({Cardinality(Neighbors(var)) : var \in byMaxValue})
        byDegree == {var \in byMaxValue : Cardinality(Neighbors(var)) = minDegree}
    IN  IF Cardinality(untreatedVar) = 1 THEN byMaxValue ELSE byDegree

\* the variables select_unassigned_variable can return
SelectUnassignedVariable(assignment) ==
    LET untreatedVar == {var \in variables : var \notin DOMAIN assignment}
        minValue == Min({Cardinality(domains[var]) : var \in untreatedVar})
        byMinValue == {var \in untreatedVar : Cardinality(domains[var]) = minValue}
        minDegree == Min({Cardinality(Neighbors(var)) : var \in byMinValue})
        byDegree == {var \in byMinValue : Cardinality(Neighbors(var)) = minDegree}
    IN  IF Cardinality(untreatedVar) = 1 THEN byMinValue ELSE byDegree

(* ------------------------------- state --------------------------------- *)

Init ==
    /\ variables \in Puzzles
    /\ words \in Vocabularies
    /\ varOrder \in Orderings(variables)
    /\ nbrOrder \in {f \in [variables -> UNION {Orderings(Neighbors(v)) : v \in variables}] :
                       \A v \in variables : f[v] \in Orderings(Neighbors(v))}
    /\ domains = [var \in variables |-> words]
    /\ pc = "solve"
    /\ queue = << >>
    /\ ac3ret = TRUE
    /\ stack = << >>
    /\ arg = EmptyAssignment
    /\ result = NoneResult
    /\ rev = NoRev
    /\ snap = domains
    /\ runs = 0
    /\ btInvoked = FALSE

\* solve(), line 92
EnforceNodeConsistency ==
    /\ pc = "solve"
    /\ domains' = EnforceNodeConsistencyDomains(domains)
    /\ pc' = "node_done"
    /\ rev' = NoRev
    /\ UNCHANGED <<model, queue, ac3ret, stack, arg, result, snap,
                   runs, btInvoked>>

\* solve(), line 93: ac3() is entered with arcs = None
Ac3Global ==
    /\ pc = "node_done"
    /\ queue' = GlobalQueue
    /\ snap' = domains
    /\ runs' = runs + 1
    /\ pc' = "ac3"
    /\ rev' = NoRev
    /\ UNCHANGED <<model, domains, ac3ret, stack, arg, result,
                   btInvoked>>

\* one iteration of ac3's while loop
Ac3Iter ==
    /\ pc = "ac3"
    /\ Len(queue) # 0
    /\ LET s == Ac3Step(domains, queue)
       IN  /\ domains' = s.domains
           /\ queue' = s.queue
           /\ rev' = [valid |-> TRUE, x |-> queue[1][1], y |-> queue[1][2],
                      ret |-> s.revised, before |-> domains]
           /\ IF s.returned
              THEN pc' = "ac3_ret" /\ ac3ret' = s.value
              ELSE pc' = "ac3" /\ ac3ret' = ac3ret
    /\ UNCHANGED <<model, stack, arg, result, snap, runs, btInvoked>>

\* the while loop ends: return True
Ac3Return ==
    /\ pc = "ac3"
    /\ Len(queue) = 0
    /\ pc' = "ac3_ret"
    /\ ac3ret' = TRUE
    /\ rev' = NoRev
    /\ UNCHANGED <<model, domains, queue, stack, arg, result, snap,
                   runs, btInvoked>>

\* variant: solve() returns None without searching when a domain is empty
SolveBacktrackUnlessEmpty ==
    /\ pc = "ac3_ret"
    /\ stack = << >>
    /\ arg' = EmptyAssignment
    /\ IF \E v \in variables : domains[v] = {}
       THEN btInvoked' = btInvoked /\ pc' = "bt_ret"
       ELSE btInvoked' = TRUE /\ pc' = "bt_call"
    /\ UNCHANGED <<model, domains, queue, ac3ret, stack, result,
                   rev, snap, runs>>

\* solve(), line 94: the result of ac3() is not looked at
SolveBacktrack ==
    /\ pc = "ac3_ret"
    /\ stack = << >>
    /\ arg' = EmptyAssignment
    /\ btInvoked' = TRUE
    /\ pc' = "bt_call"
    /\ UNCHANGED <<model, domains, queue, ac3ret, stack, result,
                   rev, snap, runs>>

\* backtrack(arg), lines 252-260: the complete case, or the selection of
\* the variable and of the order of its values; the frame also remembers
\* the store the call was entered with
BacktrackEnter ==
    /\ pc = "bt_call"
    /\ IF AssignmentComplete(arg)
       THEN /\ result' = IF Consistent(arg) THEN Some(arg) ELSE NoneResult
            /\ pc' = "bt_ret"
            /\ stack' = stack
       ELSE /\ \E selectedVar \in SelectUnassignedVariable(arg) :
               \E values \in OrderDomainValues(selectedVar, arg) :
                  stack' = <<[assignment |-> arg, selectedVar |-> selectedVar,
                              savedDomain |-> domains[selectedVar],
                              values |-> values,
                              entry |-> domains]>> \o stack
            /\ pc' = "bt_loop"
            /\ result' = result
    /\ rev' = NoRev
    /\ UNCHANGED <<model, domains, queue, ac3ret, arg, snap, runs,
                   btInvoked>>

\* lines 260-266: the next value, and the call of ac3 on the arcs
BacktrackTry ==
    /\ pc = "bt_loop"
    /\ Len(stack[1].values) # 0
    /\ LET frame == stack[1]
           selectedVar == frame.selectedVar
           value == frame.values[1]
       IN  /\ arg' = [v \in DOMAIN frame.assignment \cup {selectedVar} |->
                         IF v = selectedVar THEN value ELSE frame.assignment[v]]
           /\ stack' = [stack EXCEPT ![1].values = Tail(frame.values)]
           /\ queue' = RestrictedQueue(selectedVar)
    /\ snap' = domains
    /\ pc' = "ac3"
    /\ rev' = NoRev
    /\ UNCHANGED <<model, domains, ac3ret, result, runs, btInvoked>>

\* line 267: the recursive call, whatever ac3 returned
BacktrackRecurse ==
    /\ pc = "ac3_ret"
    /\ stack # << >>
    /\ pc' = "bt_call"
    /\ UNCHANGED <<model, domains, queue, ac3ret, stack, arg,
                   result, rev, snap, runs, btInvoked>>

\* variant: the partial assignment is returned when every value has failed
BacktrackExhaustedReturningAssignment ==
    /\ pc = "bt_loop"
    /\ Len(stack[1].values) = 0
    /\ domains' = [domains EXCEPT ![stack[1].selectedVar] = stack[1].savedDomain]
    /\ result' = Some(stack[1].assignment)
    /\ stack' = Tail(stack)
    /\ pc' = "bt_ret"
    /\ rev' = NoRev
    /\ UNCHANGED <<model, queue, ac3ret, arg, snap, runs, btInvoked>>

\* variant: the saved domain is not put back
BacktrackExhaustedNoRestore ==
    /\ pc = "bt_loop"
    /\ Len(stack[1].values) = 0
    /\ result' = NoneResult
    /\ stack' = Tail(stack)
    /\ pc' = "bt_ret"
    /\ rev' = NoRev
    /\ UNCHANGED <<model, domains, queue, ac3ret, arg, snap, runs, btInvoked>>

\* line 271 and the implicit return None
BacktrackExhausted ==
    /\ pc = "bt_loop"
    /\ Len(stack[1].values) = 0
    /\ domains' = [domains EXCEPT ![stack[1].selectedVar] = stack[1].savedDomain]
    /\ result' = NoneResult
    /\ stack' = Tail(stack)
    /\ pc' = "bt_ret"
    /\ rev' = NoRev
    /\ UNCHANGED <<model, queue, ac3ret, arg, snap, runs, btInvoked>>

\* lines 268-269: the recursive call has returned to the loop
BacktrackResume ==
    /\ pc = "bt_ret"
    /\ stack # << >>
    /\ IF ~result.none
       THEN stack' = Tail(stack) /\ pc' = "bt_ret"
       ELSE stack' = stack /\ pc' = "bt_loop"
    /\ UNCHANGED <<model, domains, queue, ac3ret, arg, result, rev,
                   snap, runs, btInvoked>>

\* solve() returns what the outermost backtrack returned
SolveReturn ==
    /\ pc = "bt_ret"
    /\ stack = << >>
    /\ pc' = "done"
    /\ UNCHANGED <<model, domains, queue, ac3ret, stack, arg,
                   result, rev, snap, runs, btInvoked>>

Next ==
    \/ EnforceNodeConsistency
    \/ Ac3Global
    \/ Ac3Iter
    \/ Ac3Return
    \/ SolveBacktrack
    \/ BacktrackEnter
    \/ BacktrackTry
    \/ BacktrackRecurse
    \/ BacktrackExhausted
    \/ BacktrackResume
    \/ SolveReturn

Spec == Init /\ [][Next]_vars

(* ---------------- the global ac3() called a second time ---------------- *)

\* ac3() is called again, with arcs = None, on the store a global run that
\* returned True has left
Ac3Again ==
    /\ pc = "ac3_ret"
    /\ stack = << >>
    /\ ac3ret = TRUE
    /\ runs < MaxRuns
    /\ queue' = GlobalQueue
    /\ snap' = domains
    /\ runs' = runs + 1
    /\ pc' = "ac3"
    /\ rev' = NoRev
    /\ UNCHANGED <<model, domains, ac3ret, stack, arg, result, btInvoked>>

NextRerun ==
    \/ EnforceNodeConsistency
    \/ Ac3Global
    \/ Ac3Iter
    \/ Ac3Return
    \/ Ac3Again

SpecRerun == Init /\ [][NextRerun]_vars

(* ------------------------------ properties ----------------------------- *)

\* a is a solution of the puzzle: it assigns a vocabulary word to every
\* variable, no word twice, every word of its variable's length, and equal
\* letters wherever two variables overlap
IsSolution(a) ==
    /\ DOMAIN a = variables
    /\ \A v \in variables : a[v] \in words
    /\ \A u, v \in variables : u # v => a[u] # a[v]
    /\ \A v \in variables : Len(a[v]) = v.length
    /\ \A x, y \in variables :
          Overlap(x, y) # NoOverlap =>
              a[x][Overlap(x, y)[1] + 1] = a[y][Overlap(x, y)[2] + 1]

SolutionExists == \E a \in [variables -> words] : IsSolution(a)

\* every word of domain(x) has a partner in domain(y), for all neighbors
ArcConsistent(doms) ==
    \A x \in variables : \A y \in Neighbors(x) :
        \A w \in doms[x] : \E w2 \in doms[y] :
            w[Overlap(x, y)[1] + 1] = w2[Overlap(x, y)[2] + 1]

\* the vocabulary has no word of the length of some variable
NoWordForSomeVariable ==
    \E v \in variables : \A w \in words : Len(w) # v.length

\* C1: an assignment returned by solve() assigns a word to every variable,
\* uses no word twice, fits every variable's length and agrees at every
\* overlap.
C1_ReturnedAssignmentIsSolution ==
    (pc = "done" /\ ~result.none) => IsSolution(result.value)

C1_Witness ==
    /\ pc = "done"
    /\ ~result.none
    /\ variables = PuzzleStair

\* C2: solve() returns an assignment if and only if the puzzle has a
\* solution in the vocabulary, whatever the random choices made.
C2_SolvedIffSolvable ==
    pc = "done" => (~result.none <=> SolutionExists)

\* no solution, and only the search could tell: no domain is empty
C2_Witness ==
    /\ pc = "done"
    /\ result.none
    /\ \A v \in variables : domains[v] # {}
    /\ ~SolutionExists

\* C3: after enforce_node_consistency the domain of every variable is
\* exactly the set of the vocabulary's words of the variable's length.
C3_NodeConsistencyExact ==
    pc = "node_done" =>
        \A v \in variables : domains[v] = {w \in words : Len(w) = v.length}

C3_Witness ==
    /\ pc = "node_done"
    /\ \E v \in variables : domains[v] # {} /\ domains[v] # words

\* C4: after a global ac3() on node-consistent domains has returned True,
\* every word of domain(x) has a word of domain(y) that agrees with it at
\* the overlap, for every pair of neighbors (x, y).
C4_ArcConsistentAfterGlobalAc3 ==
    (pc = "ac3_ret" /\ stack = << >> /\ ac3ret = TRUE) => ArcConsistent(domains)

\* C5: a global ac3() run on the store left by a successful global ac3()
\* run changes no domain.
C5_SecondGlobalAc3IsNoOp ==
    (pc = "ac3_ret" /\ runs >= 2) => domains = snap

\* C6: if the vocabulary has no word of the length of some variable,
\* solve() returns None.
C6_NoSolutionWithoutFittingWord ==
    (pc = "done" /\ NoWordForSomeVariable) => result.none

\* one variable has words of its length, another has none
C6_Witness ==
    /\ pc = "done"
    /\ NoWordForSomeVariable
    /\ \E v \in variables : \E w \in words : Len(w) = v.length

C8_Ac3FalseWhenDomainEmptied ==
    (pc = "ac3_ret" /\ \E v \in variables : domains[v] = {} /\ snap[v] # {})
        => ac3ret = FALSE

\* C9: revise(x, y) returns True if and only if it has changed domain(x).
C9_ReviseReturnsWhetherChanged ==
    rev.valid => (rev.ret <=> domains[rev.x] # rev.before[rev.x])

\* C10: revise(x, y) leaves in domain(x) exactly the words of the previous
\* domain(x) that agree with some word of domain(y) at the overlap, and
\* changes no other domain.
C10_ReviseKeepsSupportedWords ==
    rev.valid =>
        /\ domains[rev.x] =
              {wx \in rev.before[rev.x] :
                  \E wy \in rev.before[rev.y] :
                      wx[Overlap(rev.x, rev.y)[1] + 1]
                          = wy[Overlap(rev.x, rev.y)[2] + 1]}
        /\ \A v \in variables : v # rev.x => domains[v] = rev.before[v]

\* a revision that removed a word and kept another
C10_Witness ==
    /\ rev.valid
    /\ domains[rev.x] # rev.before[rev.x]
    /\ domains[rev.x] # {}

\* the variables a call of backtrack(a) chooses among
Unassigned(a) == {v \in variables : v \notin DOMAIN a}

\* backtrack(arg) has just selected its variable and ordered its values
Selecting == pc = "bt_call" /\ pc' = "bt_loop"

\* a frame no value of which has been tried yet: the store is the one the
\* selection was made on
FreshFrame ==
    /\ pc = "bt_loop"
    /\ domains = stack[1].entry
    /\ Len(stack[1].values) = Cardinality(domains[stack[1].selectedVar])

\* the words of the unassigned neighbors' domains that w rules out
ConflictCount(v, w, a) ==
    LET open == {n \in Neighbors(v) : n \notin DOMAIN a}
        perNeighbor ==
            [n \in open |->
                Cardinality({w2 \in domains[n] :
                    w[Overlap(v, n)[1] + 1] # w2[Overlap(v, n)[2] + 1]})]
    IN  SumOver(perNeighbor, open)

\* C11: select_unassigned_variable returns a variable that is not in the
\* assignment and whose domain is smallest among the unassigned variables.
C11_SelectsMinimumRemainingValues ==
    [][Selecting =>
          LET v == stack'[1].selectedVar
          IN  /\ v \in Unassigned(arg)
              /\ \A u \in Unassigned(arg) :
                    Cardinality(domains[v]) <= Cardinality(domains[u])]_vars

\* a selection made while another unassigned variable had a larger domain
C11_Witness ==
    /\ FreshFrame
    /\ \E u \in Unassigned(stack[1].assignment) :
          Cardinality(domains[u]) > Cardinality(domains[stack[1].selectedVar])

\* C12: among the unassigned variables with the smallest domain,
\* select_unassigned_variable returns one with the highest degree.
C12_SelectsHighestDegree ==
    [][Selecting =>
          LET v == stack'[1].selectedVar
              smallest == Min({Cardinality(domains[u]) : u \in Unassigned(arg)})
              tied == {u \in Unassigned(arg) : Cardinality(domains[u]) = smallest}
          IN  \A u \in tied :
                 Cardinality(Neighbors(u)) <= Cardinality(Neighbors(v))]_vars

\* C13: order_domain_values returns the words of domain(v), each once, in
\* nondecreasing order of the number of neighbor words they rule out.
C13_ValuesOrderedByConflicts ==
    [][Selecting =>
          LET v == stack'[1].selectedVar
              vals == stack'[1].values
          IN  /\ {vals[k] : k \in 1 .. Len(vals)} = domains[v]
              /\ Len(vals) = Cardinality(domains[v])
              /\ \A a, b \in 1 .. Len(vals) :
                    a < b => ConflictCount(v, vals[a], arg)
                                <= ConflictCount(v, vals[b], arg)]_vars

\* C14: when a backtrack call returns None because every value of its
\* variable has failed, the store is the one the call was entered with.
C14_FailureRestoresStore ==
    [][(pc = "bt_loop" /\ pc' = "bt_ret") => (domains' = stack[1].entry)]_vars

\* a call about to fail whose propagation has pruned its variable's domain
C14_Witness ==
    /\ pc = "bt_loop"
    /\ Len(stack[1].values) = 0
    /\ domains # stack[1].entry

\* C15: every value of the selected variable is tried from the store the
\* call was entered with.
C15_EveryValueTriedFromEntryStore ==
    (pc = "bt_loop" /\ Len(stack[1].values) # 0) => domains = stack[1].entry

\* C16: when the revision of the popped arc (x, y) removes a word from
\* domain(x) and leaves it non-empty, the arcs (x, z), z a neighbor of x
\* other than y, and no others, are appended to the queue.
C16_ReenqueuesNeighborsOnChange ==
    [][(/\ pc = "ac3"
        /\ Len(queue) # 0
        /\ domains'[queue[1][1]] # domains[queue[1][1]]
        /\ domains'[queue[1][1]] # {})
          => LET x == queue[1][1]
                 y == queue[1][2]
                 expected == {<<x, z>> : z \in Neighbors(x) \ {y}}
             IN  /\ Len(queue') = Len(queue) - 1 + Cardinality(expected)
                 /\ {queue'[k] : k \in Len(queue) .. Len(queue')} = expected
                 /\ \A k \in 1 .. Len(queue) - 1 : queue'[k] = queue[k + 1] ]_vars

\* C17: during enforce_node_consistency and during every ac3 run a domain
\* never gains a word.
C17_DomainsOnlyShrink ==
    [][(pc \in {"solve", "node_done", "ac3"}) =>
          (\A v \in variables : domains'[v] \subseteq domains[v])]_vars

\* a global run that has pruned the domains of two variables
C17_Witness ==
    /\ pc = "ac3"
    /\ stack = << >>
    /\ \E u, v \in variables :
          u # v /\ domains[u] # snap[u] /\ domains[v] # snap[v]

\* what is left of the run, most significant first: per call of backtrack,
\* outermost first, the values it has still to try, then the progress of the
\* innermost activity
Progress ==
    LET w == Cardinality(words)
        phase == CASE pc = "done" -> 0
                   [] pc = "bt_loop" -> 0
                   [] pc = "bt_ret" -> 1
                   [] pc = "bt_call" -> w + 3
                   [] pc = "ac3_ret" -> w + 4
                   [] pc = "ac3" -> w + 5 + Len(queue)
                   [] pc = "node_done" -> w + 6 + Len(GlobalQueue)
                   [] pc = "solve" -> w + 7 + Len(GlobalQueue)
    IN  [k \in 1 .. Len(stack) + 1 |->
            IF k <= Len(stack)
            THEN Len(stack[Len(stack) + 1 - k].values) + 2
            ELSE phase]

\* s comes before t in the lexicographic order
LexLess(s, t) ==
    \E k \in 1 .. Len(s) :
        /\ k <= Len(t)
        /\ s[k] < t[k]
        /\ \A m \in 1 .. k - 1 : s[m] = t[m]

\* C18: solve() terminates: every step leaves strictly less to do, of a
\* finite amount, and a step is possible until solve() has returned; an ac3
\* run ends with an empty queue or with False, a recursive call of
\* backtrack gets the caller's assignment plus the selected variable, which
\* was not assigned, and the recursion is never deeper than the number of
\* variables.
C18_SolveTerminates ==
    /\ [][LexLess(Progress', Progress)]_vars
    /\ [](/\ pc # "done" => ENABLED Next
          /\ \A k \in 1 .. Len(Progress) :
                Progress[k] \in 0 .. Cardinality(words) + 7 + Len(GlobalQueue)
          /\ pc = "ac3_ret" => (queue = << >> \/ ac3ret = FALSE)
          /\ (pc = "bt_call" /\ stack # << >>) =>
                /\ stack[1].selectedVar \notin DOMAIN stack[1].assignment
                /\ DOMAIN arg = DOMAIN stack[1].assignment \cup {stack[1].selectedVar}
                /\ Cardinality(DOMAIN arg) = Len(stack)
          /\ Len(stack) <= Cardinality(variables))

\* the deepest recursion: the call that finds the assignment complete
C18_Witness ==
    /\ pc = "bt_call"
    /\ Len(stack) = Cardinality(variables)
    /\ variables = PuzzleStair

\* C19: the ac3 run that backtrack starts on the arcs (selected variable,
\* neighbor) changes no domain but the selected variable's.
C19_RestrictedAc3TouchesOnlySelected ==
    (pc \in {"ac3", "ac3_ret"} /\ stack # << >>) =>
        \A v \in variables : v # stack[1].selectedVar => domains[v] = snap[v]

\* a restricted run that has pruned the selected variable's domain
C19_Witness ==
    /\ pc = "ac3_ret"
    /\ stack # << >>
    /\ domains[stack[1].selectedVar] # snap[stack[1].selectedVar]

\* C20: in the store solve() leaves when it returns an assignment, every
\* variable's assigned word is a word of the variable's domain.
C20_ReturnedWordsStayInDomains ==
    (pc = "done" /\ ~result.none) =>
        \A v \in variables : result.value[v] \in domains[v]

\* an assignment returned from a store that the search's own propagation
\* has left smaller than node consistency made it
C20_Witness ==
    /\ pc = "done"
    /\ ~result.none
    /\ \E v \in variables :
          /\ Cardinality(domains[v]) = 1
          /\ Cardinality({w \in words : Len(w) = v.length}) = 2

====
